---- MODULE Spec2Model ----
(***************************************************************************)
(* MemoHub: the memory store of services/database_service.py.              *)
(*                                                                         *)
(* State: the two DynamoDB tables (memory metadata, vectors), the          *)
(* process-local vector_store dict, and the position of the request the    *)
(* process is serving.  The handlers of routers/search.py are plain calls  *)
(* into the service, so one request is served at a time; a process may     *)
(* stop between any two store calls and be constructed again.              *)
(*                                                                         *)
(* Spec has the writes and the searches, RouteSpec the writes and the      *)
(* routes that read by id, ParserSpec the chunker of                       *)
(* services/parser_service.py on every text within the bounds, LoopSpec    *)
(* several requests in flight on the one event loop, IngestSpec            *)
(* parse_file with one create_memory call per chunk, and KeySpec the api   *)
(* keys of services/api_key_service.py.                                    *)
(***************************************************************************)
EXTENDS Integers, Sequences, FiniteSets, TLC

\* ------------------------------------------------------------------ bounds
\* number of uuid4 values create_memory draws in one behaviour
MaxMemories == 2
\* items one scan() response carries (DynamoDB returns a single page of at
\* most 1 MB per call; the unit here is one vector item)
ScanPageItems == 1
\* store calls that raise, plus process restarts, in one behaviour
MaxFaults == 2
\* config.py EMBEDDING_DIMENSION (2048 in the source, scaled to 2)
EMBEDDING_DIMENSION == 2
\* characters of a text handed to the chunker, and its largest token budget
MaxTextLen == 4
MaxBudget == 3
\* requests in flight at once
MaxTasks == 2
\* chunks the chunker makes of one document, and uploads in one behaviour
MaxChunks == 3
MaxUploads == 2
\* api keys created in one behaviour, and the latest hour of the clock
MaxKeys == 2
MaxTime == 2

Users == {"u1", "u2"}
MemoryIds == 1..MaxMemories
\* embeddings handed to create_memory: two unit vectors, and one of another
\* length
Embeddings == {<<1, 0>>, <<0, 1>>, <<1, 0, 0>>}
\* query vectors, limits and thresholds (similarities are in hundredths)
Queries == {<<1, 0>>, <<3, 4>>, <<0, 0>>, <<1, 0, 0>>}
Limits == {1, MaxMemories}
Thresholds == {60, 100}
\* the ids whose get_item raises during one search: none, or the store is down
Outages == {{}, MemoryIds}

None == "None"
\* similarities are kept in hundredths; nan is a value no number equals
Scale == 100
NaN == 0 - 1000

VARIABLES
    memories,          \* table unimem-memories: id -> item
    embeddings,        \* table unimem-embeddings: id -> item
    vector_store,      \* the dict of the process, in insertion order
    dynamodb_disabled, \* set by _init_tables
    next_uuid,         \* uuid4 values drawn so far, plus one
    pc,                \* where the request being served stands
    cur,               \* the request being served
    response,          \* what the last finished request gave its caller
    created,           \* history: id -> what create_memory was called with
    deleted,           \* history: ids for which delete_memory returned True
    faults,            \* history: store calls that raised, and restarts
    text,              \* parser: the text handed to _split_text_into_chunks
    max_tokens,        \* parser: its token budget
    chunks,            \* parser: the list it returned
    tasks,             \* event loop: the requests in flight, by slot
    running,           \* event loop: the slot whose coroutine runs, or 0
    upload,            \* ingestion: the parse_file call being served
    api_keys,          \* table unimem-api-keys: id -> item
    now,               \* api keys: datetime.utcnow()
    key_reply,         \* api keys: what the last call gave its caller
    revoked            \* history: key ids for which revoke_api_key returned

\* the variables of the parser, of the event loop, of the ingestion of one
\* upload and of the api keys
parser == <<text, max_tokens, chunks>>
loop == <<tasks, running>>
ingest == <<upload>>
keys == <<api_keys, now, key_reply, revoked>>

vars == <<memories, embeddings, vector_store, dynamodb_disabled, next_uuid,
          pc, cur, response, created, deleted, faults, text, max_tokens, chunks,
          tasks, running, upload, api_keys, now, key_reply, revoked>>

\* ------------------------------------------------------------- conversions
\* Decimal(str(float(x))): the number as DynamoDB stores it
ToDecimal(x) == [decimal |-> x]
\* float(x) of a stored Decimal
FromDecimal(d) == d.decimal

DecimalEmbedding(embedding) ==
    [i \in 1..Len(embedding) |-> ToDecimal(embedding[i])]

FloatEmbedding(decimal_embedding) ==
    [i \in 1..Len(decimal_embedding) |-> FromDecimal(decimal_embedding[i])]

\* ---------------------------------------------------------------- the dict
Keys(store) == {store[i].memory_id : i \in 1..Len(store)}

\* d[key] = entry: a known key keeps its place, a new key goes last
DictSet(store, entry) ==
    IF entry.memory_id \in Keys(store)
    THEN [i \in 1..Len(store) |->
            IF store[i].memory_id = entry.memory_id THEN entry ELSE store[i]]
    ELSE Append(store, entry)

\* del d[key]
DictDel(store, memory_id) ==
    SelectSeq(store, LAMBDA e : e.memory_id # memory_id)

\* ------------------------------------------------------------- the tables
\* what a lookup yields when the table has no item under the key
NoItem == [id |-> 0, user_id |-> None]

TableGet(table, id) == IF id \in DOMAIN table THEN table[id] ELSE NoItem

TablePut(table, item) ==
    [k \in DOMAIN table \cup {item.id} |-> IF k = item.id THEN item ELSE table[k]]

TableDelete(table, id) == [k \in DOMAIN table \ {id} |-> table[k]]

\* -------------------------------------------------------------- similarity
Dot(a, b) ==
    LET F[i \in 0..Len(a)] == IF i = 0 THEN 0 ELSE F[i - 1] + a[i] * b[i]
    IN  F[Len(a)]

\* np.linalg.norm; exact on the vectors of Embeddings and Queries
Norm(a) ==
    LET n == Dot(a, a) IN CHOOSE r \in 0..n : r * r <= n /\ n < (r + 1) * (r + 1)

\* np.dot raises on operands of different lengths
ShapesAligned(query_vector, embedding) == Len(query_vector) = Len(embedding)

\* dot / (|q| * |e|), in hundredths; a zero norm divides 0.0 by 0.0, which
\* numpy evaluates to nan without raising
Similarity(query_vector, embedding) ==
    IF Norm(query_vector) * Norm(embedding) = 0
    THEN NaN
    ELSE (Dot(query_vector, embedding) * Scale)
             \div (Norm(query_vector) * Norm(embedding))

\* the comparison written similarity > threshold
Above(similarity, threshold) == similarity # NaN /\ similarity > threshold

\* similarity >= threshold; every comparison with nan is False
AtLeast(similarity, threshold) == similarity # NaN /\ similarity >= threshold

\* ------------------------------------------------------------------- reads
\* get_memory_by_id; failing: the ids whose get_item raises (swallowed)
GetMemoryById(memory_id, failing) ==
    IF dynamodb_disabled \/ memory_id \in failing
    THEN NoItem
    ELSE TableGet(memories, memory_id)

\* whatever get_memory_by_id handed back taken for the caller's record
Unchecked(memory, user_id) == TRUE

\* memory and memory.get('user_id') == user_id
OwnedBy(memory, user_id) ==
    memory # NoItem /\ memory.user_id = user_id

\* the loop without its two user_id checks (lines 277 and 292)
RECURSIVE QualifyingAnyTenant(_, _, _, _, _)
QualifyingAnyTenant(store, query_vector, user_id, threshold, failing) ==
    IF store = <<>>
    THEN <<>>
    ELSE LET vector_data == Head(store)
             rest == QualifyingAnyTenant(Tail(store), query_vector, user_id,
                                         threshold, failing)
             memory == GetMemoryById(vector_data.memory_id, failing)
         IN  IF /\ ShapesAligned(query_vector, vector_data.embedding)
                /\ AtLeast(Similarity(query_vector, vector_data.embedding),
                           threshold)
                /\ memory # NoItem
             THEN <<[memory |-> memory,
                     similarity_score |->
                         Similarity(query_vector, vector_data.embedding)]>>
                      \o rest
             ELSE rest

\* the loop of semantic_search over the dict, in dict order
RECURSIVE Qualifying(_, _, _, _, _)
Qualifying(store, query_vector, user_id, threshold, failing) ==
    IF store = <<>>
    THEN <<>>
    ELSE LET vector_data == Head(store)
             rest == Qualifying(Tail(store), query_vector, user_id,
                                threshold, failing)
             similarity == Similarity(query_vector, vector_data.embedding)
             memory == GetMemoryById(vector_data.memory_id, failing)
         IN  IF vector_data.user_id # user_id
             THEN rest
             ELSE IF AtLeast(similarity, threshold) /\ OwnedBy(memory, user_id)
                  THEN <<[memory |-> memory, similarity_score |-> similarity]>>
                           \o rest
                  ELSE rest

\* the results as the loop appended them, the sort left out
InsertionOrder(results) == results

\* list.sort(key=similarity_score, reverse=True): stable, so equal scores
\* keep the order in which the loop appended them
RECURSIVE SortBySimilarity(_)
SortBySimilarity(results) ==
    IF results = <<>>
    THEN <<>>
    ELSE LET last == results[Len(results)]
             sorted == SortBySimilarity(SubSeq(results, 1, Len(results) - 1))
             ahead == SelectSeq(sorted,
                        LAMBDA r : r.similarity_score >= last.similarity_score)
             behind == SelectSeq(sorted,
                        LAMBDA r : r.similarity_score < last.similarity_score)
         IN  ahead \o <<last>> \o behind

\* results[:limit], limit >= 1
Truncate(results, limit) ==
    SubSeq(results, 1, IF Len(results) < limit THEN Len(results) ELSE limit)

\* semantic_search over a given dict
SemanticSearchOn(store, query_embedding, user_id, limit, threshold, failing) ==
    IF \E i \in 1..Len(store) :
           /\ store[i].user_id = user_id
           /\ ~ShapesAligned(query_embedding, store[i].embedding)
    THEN [status |-> "raised", results |-> <<>>]
    ELSE [status |-> "ok",
          results |-> Truncate(
              SortBySimilarity(
                  Qualifying(store, query_embedding, user_id, threshold, failing)),
              limit)]

SemanticSearch(query_embedding, user_id, limit, threshold, failing) ==
    SemanticSearchOn(vector_store, query_embedding, user_id, limit, threshold,
                     failing)

ResultIds(outcome) ==
    {outcome.results[i].memory.id : i \in 1..Len(outcome.results)}

\* self.vector_store[memory_id]
DictGet(store, memory_id) ==
    CHOOSE entry \in {store[i] : i \in 1..Len(store)} : entry.memory_id = memory_id

\* threshold=0.5 of get_related_memories, in hundredths
RelatedThreshold == 50

\* the results of the search handed on as they are
KeepSelf(results, memory_id) == results

\* [r for r in results if r['memory']['id'] != memory_id]
ExcludeSelf(results, memory_id) ==
    SelectSeq(results, LAMBDA r : r.memory.id # memory_id)

\* get_related_memories; whatever the search raises ends in `return []`
GetRelatedMemories(memory_id, user_id, limit, failing) ==
    IF memory_id \notin Keys(vector_store)
    THEN <<>>
    ELSE LET vector_data == DictGet(vector_store, memory_id) IN
         IF vector_data.user_id # user_id
         THEN <<>>
         ELSE LET outcome == SemanticSearch(vector_data.embedding, user_id,
                                            limit + 1, RelatedThreshold, failing)
              IN  IF outcome.status = "raised"
                  THEN <<>>
                  ELSE Truncate(ExcludeSelf(outcome.results, memory_id), limit)

\* POST /memories/{memory_id}/related: 404 without the record, 403 for a
\* record of another user, else the related memories
RelatedMemoriesRoute(memory_id, user_id, limit, failing) ==
    LET memory == GetMemoryById(memory_id, failing) IN
    IF memory = NoItem
    THEN [status |-> "404", results |-> <<>>]
    ELSE IF memory.user_id # user_id
         THEN [status |-> "403", results |-> <<>>]
         ELSE [status |-> "200",
               results |-> GetRelatedMemories(memory_id, user_id, limit, failing)]

\* GET /api/memos/{memo_id} (routers/memos.py): 404 without the record, 403
\* for a record of another user, else the record
GetMemo(memo_id, user_id, failing) ==
    LET memory == GetMemoryById(memo_id, failing) IN
    IF memory = NoItem
    THEN "404"
    ELSE IF memory.user_id # user_id THEN "403" ELSE "200"

\* GET /memories/{memory_id} (routers/search.py): the route takes no
\* credentials; 404 without the record, else the record
GetMemoryByIdRoute(memory_id, failing) ==
    IF GetMemoryById(memory_id, failing) = NoItem THEN "404" ELSE "200"

\* ---------------------------------------------------------------- requests
NoRequest == [op |-> "none", id |-> 0, user_id |-> None, embedding |-> <<>>]

\* what a finished request gave its caller; Pending while one is served
Response(op, id, status, results) ==
    [op |-> op, id |-> id, status |-> status, results |-> results]

Pending == Response("none", 0, "pending", <<>>)

\* the item create_memory writes to the memories table (memory_data)
MemoryData(memory_id, user_id) == [id |-> memory_id, user_id |-> user_id]

\* the item create_memory writes to the embeddings table (vector_data)
VectorData(memory_id, user_id, embedding) ==
    [id |-> memory_id, user_id |-> user_id,
     embedding |-> DecimalEmbedding(embedding), memory_id |-> memory_id]

\* the entry create_memory puts into the dict
StoreEntry(memory_id, user_id, embedding) ==
    [embedding |-> embedding, memory_id |-> memory_id, user_id |-> user_id]

\* history of one create_memory call: what it was called with, how it ended
\* ("pending" while served, "returned", "raised", "interrupted" when the
\* process ended first) and whether it returned in the running process
Called(user_id, embedding, outcome) ==
    [user_id |-> user_id, embedding |-> embedding, outcome |-> outcome,
     live |-> FALSE]

Record(id, outcome) ==
    [created EXCEPT ![id].outcome = outcome, ![id].live = (outcome = "returned")]

\* the history once the process has ended
Ended ==
    [id \in DOMAIN created |->
        [created[id] EXCEPT
            !.outcome = IF @ = "pending" THEN "interrupted" ELSE @,
            !.live = FALSE]]

\* a store call that goes through, or one that raises (within the budget)
StoreCall(ok) ==
    IF ok THEN faults' = faults
          ELSE faults < MaxFaults /\ faults' = faults + 1

\* --------------------------------------------------------- create_memory
\* create_memory while dynamodb_disabled: prints and returns None
CreateMemoryDisabled(user_id, embedding) ==
    /\ pc = "idle"
    /\ dynamodb_disabled
    /\ response' = Response("create", 0, "none", <<>>)
    /\ UNCHANGED <<memories, embeddings, vector_store, dynamodb_disabled,
                   next_uuid, pc, cur, created, deleted, faults>>
    /\ UNCHANGED <<parser, loop, ingest, keys>>

\* create_memory up to and including memories_table.put_item
CreateMemory(user_id, embedding, put_ok) ==
    /\ pc = "idle"
    /\ ~dynamodb_disabled
    /\ next_uuid <= MaxMemories
    /\ StoreCall(put_ok)
    /\ LET memory_id == next_uuid IN
        /\ next_uuid' = next_uuid + 1
        /\ IF put_ok
           THEN /\ memories' = TablePut(memories, MemoryData(memory_id, user_id))
                /\ pc' = "create_put_vector"
                /\ cur' = [op |-> "create", id |-> memory_id,
                           user_id |-> user_id, embedding |-> embedding]
                /\ created' = (memory_id :> Called(user_id, embedding, "pending"))
                                  @@ created
                /\ response' = Pending
           ELSE /\ created' = (memory_id :> Called(user_id, embedding, "raised"))
                                  @@ created
                /\ response' = Response("create", memory_id, "raised", <<>>)
                /\ UNCHANGED <<memories, pc, cur>>
    /\ UNCHANGED <<embeddings, vector_store, dynamodb_disabled, deleted>>
    /\ UNCHANGED <<parser, loop, ingest, keys>>

\* the dict entry written ahead of vectors_table.put_item
CreatePutVectorIndexFirst(put_ok) ==
    /\ pc = "create_put_vector"
    /\ StoreCall(put_ok)
    /\ vector_store' = DictSet(vector_store,
                           StoreEntry(cur.id, cur.user_id, cur.embedding))
    /\ IF put_ok
       THEN /\ embeddings' = TablePut(embeddings,
                                 VectorData(cur.id, cur.user_id, cur.embedding))
            /\ pc' = "create_index"
            /\ UNCHANGED <<cur, response, created>>
       ELSE /\ pc' = "idle"
            /\ cur' = NoRequest
            /\ created' = Record(cur.id, "raised")
            /\ response' = Response("create", cur.id, "raised", <<>>)
            /\ UNCHANGED embeddings
    /\ UNCHANGED <<memories, dynamodb_disabled, next_uuid, deleted>>
    /\ UNCHANGED <<parser, loop, ingest, keys>>

\* vectors_table.put_item of create_memory
CreatePutVector(put_ok) ==
    /\ pc = "create_put_vector"
    /\ StoreCall(put_ok)
    /\ IF put_ok
       THEN /\ embeddings' = TablePut(embeddings,
                                 VectorData(cur.id, cur.user_id, cur.embedding))
            /\ pc' = "create_index"
            /\ UNCHANGED <<cur, response, created>>
       ELSE /\ pc' = "idle"
            /\ cur' = NoRequest
            /\ created' = Record(cur.id, "raised")
            /\ response' = Response("create", cur.id, "raised", <<>>)
            /\ UNCHANGED embeddings
    /\ UNCHANGED <<memories, vector_store, dynamodb_disabled, next_uuid, deleted>>
    /\ UNCHANGED <<parser, loop, ingest, keys>>

\* self.vector_store[memory_id] = {...}; return memory_id
CreateIndexInsert ==
    /\ pc = "create_index"
    /\ vector_store' = DictSet(vector_store,
                           StoreEntry(cur.id, cur.user_id, cur.embedding))
    /\ pc' = "idle"
    /\ cur' = NoRequest
    /\ created' = Record(cur.id, "returned")
    /\ response' = Response("create", cur.id, "returned", <<>>)
    /\ UNCHANGED <<memories, embeddings, dynamodb_disabled, next_uuid, deleted,
                   faults>>
    /\ UNCHANGED <<parser, loop, ingest, keys>>

\* --------------------------------------------------------- delete_memory
\* DELETE /memories/{memory_id}: the route takes no credentials, so the
\* requester is not an input of the code; delete_memory up to and including
\* memories_table.delete_item.  With dynamodb_disabled self.dynamodb is None
\* and the first line raises inside the try.
DeleteMemory(requester, memory_id, delete_ok) ==
    /\ pc = "idle"
    /\ memory_id \in 1..(next_uuid - 1)
    /\ StoreCall(delete_ok \/ dynamodb_disabled)
    /\ IF delete_ok /\ ~dynamodb_disabled
       THEN /\ memories' = TableDelete(memories, memory_id)
            /\ pc' = "delete_vector"
            /\ cur' = [op |-> "delete", id |-> memory_id, user_id |-> requester,
                       embedding |-> <<>>]
            /\ response' = Pending
       ELSE /\ response' = Response("delete", memory_id, "False", <<>>)
            /\ UNCHANGED <<memories, pc, cur>>
    /\ UNCHANGED <<embeddings, vector_store, dynamodb_disabled, next_uuid,
                   created, deleted>>
    /\ UNCHANGED <<parser, loop, ingest, keys>>

\* vectors_table.delete_item of delete_memory
DeleteVector(delete_ok) ==
    /\ pc = "delete_vector"
    /\ StoreCall(delete_ok)
    /\ IF delete_ok
       THEN /\ embeddings' = TableDelete(embeddings, cur.id)
            /\ pc' = "delete_index"
            /\ UNCHANGED <<cur, response>>
       ELSE /\ pc' = "idle"
            /\ cur' = NoRequest
            /\ response' = Response("delete", cur.id, "False", <<>>)
            /\ UNCHANGED embeddings
    /\ UNCHANGED <<memories, vector_store, dynamodb_disabled, next_uuid,
                   created, deleted>>
    /\ UNCHANGED <<parser, loop, ingest, keys>>

\* a delete_memory that returns True with the dict left as it was
DeleteIndexKept ==
    /\ pc = "delete_index"
    /\ pc' = "idle"
    /\ cur' = NoRequest
    /\ deleted' = deleted \cup {cur.id}
    /\ response' = Response("delete", cur.id, "True", <<>>)
    /\ UNCHANGED <<memories, embeddings, vector_store, dynamodb_disabled,
                   next_uuid, created, faults>>
    /\ UNCHANGED <<parser, loop, ingest, keys>>

\* if memory_id in self.vector_store: del ...; return True
DeleteIndexEvict ==
    /\ pc = "delete_index"
    /\ vector_store' = DictDel(vector_store, cur.id)
    /\ pc' = "idle"
    /\ cur' = NoRequest
    /\ deleted' = deleted \cup {cur.id}
    /\ response' = Response("delete", cur.id, "True", <<>>)
    /\ UNCHANGED <<memories, embeddings, dynamodb_disabled, next_uuid, created,
                   faults>>
    /\ UNCHANGED <<parser, loop, ingest, keys>>

\* ------------------------------------------------------- semantic_search
\* POST /api/search/semantic -> database_service.semantic_search
SemanticSearchCall(query_embedding, user_id, limit, threshold, failing) ==
    /\ pc = "idle"
    /\ StoreCall(failing = {})
    /\ LET outcome == SemanticSearch(query_embedding, user_id, limit, threshold,
                                     failing)
       IN  response' = Response("search", 0, outcome.status, outcome.results)
    /\ UNCHANGED <<memories, embeddings, vector_store, dynamodb_disabled,
                   next_uuid, pc, cur, created, deleted>>
    /\ UNCHANGED <<parser, loop, ingest, keys>>

\* POST /memories/{memory_id}/related
RelatedCall(memory_id, user_id, limit, failing) ==
    /\ pc = "idle"
    /\ StoreCall(failing = {})
    /\ LET outcome == RelatedMemoriesRoute(memory_id, user_id, limit, failing)
       IN  response' = Response("related", memory_id, outcome.status,
                                outcome.results)
    /\ UNCHANGED <<memories, embeddings, vector_store, dynamodb_disabled,
                   next_uuid, pc, cur, created, deleted>>
    /\ UNCHANGED <<parser, loop, ingest, keys>>

\* GET /api/memos/{memo_id}
GetMemoCall(memo_id, user_id, failing) ==
    /\ pc = "idle"
    /\ StoreCall(failing = {})
    /\ response' = Response("get_memo", memo_id,
                            GetMemo(memo_id, user_id, failing), <<>>)
    /\ UNCHANGED <<memories, embeddings, vector_store, dynamodb_disabled,
                   next_uuid, pc, cur, created, deleted>>
    /\ UNCHANGED <<parser, loop, ingest, keys>>

\* GET /memories/{memory_id}
GetMemoryByIdCall(memory_id, failing) ==
    /\ pc = "idle"
    /\ StoreCall(failing = {})
    /\ response' = Response("get_memory_by_id", memory_id,
                            GetMemoryByIdRoute(memory_id, failing), <<>>)
    /\ UNCHANGED <<memories, embeddings, vector_store, dynamodb_disabled,
                   next_uuid, pc, cur, created, deleted>>
    /\ UNCHANGED <<parser, loop, ingest, keys>>

\* ------------------------------------------------------- startup recovery
\* the orders in which a scan can hand out the items of a table
ScanOrders(table) ==
    {order \in [1..Cardinality(DOMAIN table) -> DOMAIN table] :
        \A i, j \in DOMAIN order : i # j => order[i] # order[j]}

\* response.get('Items', []) of one scan() call: the first page only
ScanItems(table, order) ==
    [i \in 1..(IF Len(order) < ScanPageItems THEN Len(order) ELSE ScanPageItems)
        |-> table[order[i]]]

\* what startup reports: the ids of the items the scan handed out
ScannedIds(table, order) ==
    [i \in 1..Len(ScanItems(table, order)) |-> ScanItems(table, order)[i].id]

\* the loop of _load_vectors_to_memory over the scanned items
RECURSIVE LoadItems(_, _)
LoadItems(store, items) ==
    IF items = <<>>
    THEN store
    ELSE LET item == Head(items) IN
         LoadItems(DictSet(store,
                       [embedding |-> FloatEmbedding(item.embedding),
                        memory_id |-> item.id,
                        user_id |-> item.user_id]),
                   Tail(items))

\* a load that scans the vector table whether or not the flag is set
LoadRegardless(disabled, scan_ok, order) ==
    IF ~scan_ok
    THEN <<>>
    ELSE LoadItems(<<>>, ScanItems(embeddings, order))

\* _load_vectors_to_memory on the dict __init__ has just created
LoadVectorsToMemory(disabled, scan_ok, order) ==
    IF disabled \/ ~scan_ok
    THEN <<>>
    ELSE LoadItems(<<>>, ScanItems(embeddings, order))

\* the process ends (at any point of a request) and DatabaseService() is
\* constructed again: _init_tables, vector_store = {}, _load_vectors_to_memory
Restart(disabled, scan_ok, order) ==
    /\ faults < MaxFaults
    /\ faults' = faults + 1
    /\ dynamodb_disabled' = disabled
    /\ vector_store' = LoadVectorsToMemory(disabled, scan_ok, order)
    /\ pc' = "idle"
    /\ cur' = NoRequest
    /\ response' = Response("startup", 0,
                            IF disabled THEN "disabled"
                            ELSE IF scan_ok THEN "loaded" ELSE "failed",
                            IF disabled \/ ~scan_ok THEN <<>>
                            ELSE ScannedIds(embeddings, order))
    /\ created' = Ended
    /\ UNCHANGED <<memories, embeddings, next_uuid, deleted>>
    /\ UNCHANGED <<parser, loop, ingest, keys>>

\* ------------------------------------------------------------------ at rest
TaskIds == 1..MaxTasks

\* a slot that holds no request
NoTask ==
    [op |-> "none", at |-> "none", id |-> 0, user_id |-> None,
     embedding |-> <<>>, size |-> 0, seen |-> 0, status |-> "none",
     results |-> <<>>]

\* no parse_file call is being served
NoUpload ==
    [at |-> "none", user_id |-> None, filename |-> None, source |-> None,
     total |-> 0, k |-> 0, memory_id |-> 0, additional_memories |-> <<>>,
     result |-> "none", drawn |-> {}, failed |-> {}, count |-> 0]

\* no api key call has been answered
\* what validate_api_key returns in place of a user: None
NoUser == [user_id |-> None, api_key_id |-> 0]

NoReply ==
    [op |-> "none", id |-> 0, user_id |-> None, key |-> 0, lookup |-> "none",
     status |-> "none", result |-> NoUser]

\* no request in flight, no upload, and an api key table that holds nothing
AtRest ==
    /\ tasks = [t \in TaskIds |-> NoTask]
    /\ running = 0
    /\ upload = NoUpload
    /\ api_keys = <<>>
    /\ now = 0
    /\ key_reply = NoReply
    /\ revoked = {}

\* ------------------------------------------------------------ specification
\* the state DatabaseService() leaves on tables that hold nothing
Constructed ==
    /\ memories = <<>>
    /\ embeddings = <<>>
    /\ vector_store = <<>>
    /\ dynamodb_disabled = FALSE
    /\ next_uuid = 1
    /\ pc = "idle"
    /\ cur = NoRequest
    /\ response = Response("startup", 0, "loaded", <<>>)
    /\ created = <<>>
    /\ deleted = {}
    /\ faults = 0

Init ==
    /\ Constructed
    /\ text = <<>>
    /\ max_tokens = 1
    /\ chunks = <<>>
    /\ AtRest

Next ==
    \/ \E u \in Users, e \in Embeddings : CreateMemoryDisabled(u, e)
    \/ \E u \in Users, e \in Embeddings, ok \in BOOLEAN : CreateMemory(u, e, ok)
    \/ \E ok \in BOOLEAN : CreatePutVector(ok)
    \/ CreateIndexInsert
    \/ \E u \in Users, id \in MemoryIds, ok \in BOOLEAN : DeleteMemory(u, id, ok)
    \/ \E ok \in BOOLEAN : DeleteVector(ok)
    \/ DeleteIndexEvict
    \/ \E q \in Queries, u \in Users, l \in Limits, t \in Thresholds,
          f \in Outages :
           SemanticSearchCall(q, u, l, t, f)
    \/ \E d \in BOOLEAN, ok \in BOOLEAN, order \in ScanOrders(embeddings) :
           Restart(d, ok, order)

Spec == Init /\ [][Next]_vars

\* the routes that read by id, in place of the searches: reads leave tables
\* and dict as they are, so the two specifications reach the same stores
RouteNext ==
    \/ \E u \in Users, e \in Embeddings : CreateMemoryDisabled(u, e)
    \/ \E u \in Users, e \in Embeddings, ok \in BOOLEAN : CreateMemory(u, e, ok)
    \/ \E ok \in BOOLEAN : CreatePutVector(ok)
    \/ CreateIndexInsert
    \/ \E u \in Users, id \in MemoryIds, ok \in BOOLEAN : DeleteMemory(u, id, ok)
    \/ \E ok \in BOOLEAN : DeleteVector(ok)
    \/ DeleteIndexEvict
    \/ \E id \in MemoryIds, u \in Users, l \in Limits, f \in Outages :
           RelatedCall(id, u, l, f)
    \/ \E id \in MemoryIds, u \in Users, f \in Outages : GetMemoCall(id, u, f)
    \/ \E id \in MemoryIds, f \in Outages : GetMemoryByIdCall(id, f)
    \/ \E d \in BOOLEAN, ok \in BOOLEAN, order \in ScanOrders(embeddings) :
           Restart(d, ok, order)

RouteSpec == Init /\ [][RouteNext]_vars

\* ---------------------------------------------------------- the event loop
\* main.py serves the app with uvicorn.run(app): one process, one event
\* loop.  Every route is an `async def` that calls the service without an
\* await, and the service methods are plain functions, so a coroutine that
\* has entered a service call keeps the loop until the call returns.
\* Requests of several clients are in flight at once; their service calls
\* take steps (store calls, dict accesses, the iterations of a scan).

\* embeddings of dimension D handed to create_memory, and the query and the
\* threshold of the searches in flight
UnitEmbeddings == {e \in Embeddings : Len(e) = EMBEDDING_DIMENSION}
LoopQuery == <<3, 4>>
LoopThreshold == 60

\* service calls run on a thread of their own, whenever they like
AnyThread(task) == TRUE

\* the coroutine of the slot may take a step: the loop is free, or its own
HoldsLoop(task) == running \in {0, task}

Task(op, id, user_id, embedding) ==
    [NoTask EXCEPT !.op = op, !.at = "accepted", !.id = id,
                   !.user_id = user_id, !.embedding = embedding]

\* the slots whose service call has begun and not returned
InService == {t \in TaskIds : tasks[t].at \notin {"none", "accepted", "done"}}

\* the call of the slot moves on, keeping the loop
MoveTo(task, at) ==
    /\ tasks' = [tasks EXCEPT ![task].at = at]
    /\ running' = task

\* the call of the slot returns or raises, and the loop is free again
Finish(task, status, results) ==
    /\ tasks' = [tasks EXCEPT ![task].at = "done", ![task].status = status,
                              ![task].results = results]
    /\ running' = 0

\* a client sends a request: POST /api/search/semantic, DELETE
\* /memories/{id}, or an upload that ends in create_memory
Accept(task, op, id, user_id, embedding) ==
    /\ tasks[task].op = "none"
    /\ op = "delete" => id \in 1..(next_uuid - 1)
    /\ op # "delete" => id = 0
    /\ tasks' = [tasks EXCEPT ![task] = Task(op, id, user_id, embedding)]
    /\ UNCHANGED <<memories, embeddings, vector_store, dynamodb_disabled,
                   next_uuid, pc, cur, response, created, deleted, faults,
                   running>>
    /\ UNCHANGED <<parser, ingest, keys>>

\* create_memory up to and including memories_table.put_item
TaskCreate(task, put_ok) ==
    /\ tasks[task].op = "create" /\ tasks[task].at = "accepted"
    /\ HoldsLoop(task)
    /\ next_uuid <= MaxMemories
    /\ StoreCall(put_ok)
    /\ next_uuid' = next_uuid + 1
    /\ IF put_ok
       THEN /\ memories' = TablePut(memories,
                               MemoryData(next_uuid, tasks[task].user_id))
            /\ tasks' = [tasks EXCEPT ![task].at = "put_vector",
                                      ![task].id = next_uuid]
            /\ running' = task
       ELSE /\ Finish(task, "raised", <<>>)
            /\ UNCHANGED memories
    /\ UNCHANGED <<embeddings, vector_store, dynamodb_disabled, pc, cur,
                   response, created, deleted>>
    /\ UNCHANGED <<parser, ingest, keys>>

\* vectors_table.put_item of create_memory
TaskCreatePutVector(task, put_ok) ==
    /\ tasks[task].at = "put_vector"
    /\ HoldsLoop(task)
    /\ StoreCall(put_ok)
    /\ IF put_ok
       THEN /\ embeddings' = TablePut(embeddings,
                                 VectorData(tasks[task].id, tasks[task].user_id,
                                            tasks[task].embedding))
            /\ MoveTo(task, "insert")
       ELSE /\ Finish(task, "raised", <<>>)
            /\ UNCHANGED embeddings
    /\ UNCHANGED <<memories, vector_store, dynamodb_disabled, next_uuid, pc,
                   cur, response, created, deleted>>
    /\ UNCHANGED <<parser, ingest, keys>>

\* self.vector_store[memory_id] = {...}; return memory_id
TaskCreateInsert(task) ==
    /\ tasks[task].at = "insert"
    /\ HoldsLoop(task)
    /\ vector_store' = DictSet(vector_store,
                           StoreEntry(tasks[task].id, tasks[task].user_id,
                                      tasks[task].embedding))
    /\ Finish(task, "returned", <<>>)
    /\ UNCHANGED <<memories, embeddings, dynamodb_disabled, next_uuid, pc, cur,
                   response, created, deleted, faults>>
    /\ UNCHANGED <<parser, ingest, keys>>

\* delete_memory up to and including memories_table.delete_item
TaskDelete(task, delete_ok) ==
    /\ tasks[task].op = "delete" /\ tasks[task].at = "accepted"
    /\ HoldsLoop(task)
    /\ StoreCall(delete_ok)
    /\ IF delete_ok
       THEN /\ memories' = TableDelete(memories, tasks[task].id)
            /\ MoveTo(task, "delete_vector")
       ELSE /\ Finish(task, "False", <<>>)
            /\ UNCHANGED memories
    /\ UNCHANGED <<embeddings, vector_store, dynamodb_disabled, next_uuid, pc,
                   cur, response, created, deleted>>
    /\ UNCHANGED <<parser, ingest, keys>>

\* vectors_table.delete_item of delete_memory
TaskDeleteVector(task, delete_ok) ==
    /\ tasks[task].at = "delete_vector"
    /\ HoldsLoop(task)
    /\ StoreCall(delete_ok)
    /\ IF delete_ok
       THEN /\ embeddings' = TableDelete(embeddings, tasks[task].id)
            /\ MoveTo(task, "evict")
       ELSE /\ Finish(task, "False", <<>>)
            /\ UNCHANGED embeddings
    /\ UNCHANGED <<memories, vector_store, dynamodb_disabled, next_uuid, pc,
                   cur, response, created, deleted>>
    /\ UNCHANGED <<parser, ingest, keys>>

\* if memory_id in self.vector_store: del ...; return True
TaskDeleteEvict(task) ==
    /\ tasks[task].at = "evict"
    /\ HoldsLoop(task)
    /\ vector_store' = DictDel(vector_store, tasks[task].id)
    /\ Finish(task, "True", <<>>)
    /\ UNCHANGED <<memories, embeddings, dynamodb_disabled, next_uuid, pc, cur,
                   response, created, deleted, faults>>
    /\ UNCHANGED <<parser, ingest, keys>>

\* semantic_search reaches `for memory_id, vector_data in
\* self.vector_store.items()`: the iterator notes the size of the dict
TaskScanBegin(task) ==
    /\ tasks[task].op = "search" /\ tasks[task].at = "accepted"
    /\ HoldsLoop(task)
    /\ tasks' = [tasks EXCEPT ![task].at = "scan",
                              ![task].size = Len(vector_store),
                              ![task].seen = 0]
    /\ running' = task
    /\ UNCHANGED <<memories, embeddings, vector_store, dynamodb_disabled,
                   next_uuid, pc, cur, response, created, deleted, faults>>
    /\ UNCHANGED <<parser, ingest, keys>>

\* one turn of the loop: the iterator raises RuntimeError ("dictionary
\* changed size during iteration") when the dict is not of the size noted,
\* and hands out the next entry otherwise
TaskScanNext(task) ==
    /\ tasks[task].at = "scan"
    /\ HoldsLoop(task)
    /\ tasks[task].seen < tasks[task].size \/ Len(vector_store) # tasks[task].size
    /\ IF Len(vector_store) # tasks[task].size
       THEN Finish(task, "RuntimeError", <<>>)
       ELSE /\ tasks' = [tasks EXCEPT ![task].seen = @ + 1]
            /\ running' = task
    /\ UNCHANGED <<memories, embeddings, vector_store, dynamodb_disabled,
                   next_uuid, pc, cur, response, created, deleted, faults>>
    /\ UNCHANGED <<parser, ingest, keys>>

\* the iterator is exhausted: results.sort(...); return results[:limit]
TaskScanEnd(task) ==
    /\ tasks[task].at = "scan"
    /\ HoldsLoop(task)
    /\ tasks[task].seen = tasks[task].size
    /\ Len(vector_store) = tasks[task].size
    /\ LET outcome == SemanticSearch(tasks[task].embedding, tasks[task].user_id,
                                     MaxMemories, LoopThreshold, {})
       IN  Finish(task, outcome.status, outcome.results)
    /\ UNCHANGED <<memories, embeddings, vector_store, dynamodb_disabled,
                   next_uuid, pc, cur, response, created, deleted, faults>>
    /\ UNCHANGED <<parser, ingest, keys>>

\* the route hands the outcome to the client
Reply(task) ==
    /\ tasks[task].at = "done"
    /\ tasks' = [tasks EXCEPT ![task] = NoTask]
    /\ UNCHANGED <<memories, embeddings, vector_store, dynamodb_disabled,
                   next_uuid, pc, cur, response, created, deleted, faults,
                   running>>
    /\ UNCHANGED <<parser, ingest, keys>>

\* the process ends with whatever is in flight, and main.py is started
\* again: `database_service = DatabaseService()` runs at import, before
\* uvicorn accepts a request
LoopRestart(scan_ok, order) ==
    /\ faults < MaxFaults
    /\ faults' = faults + 1
    /\ vector_store' = LoadVectorsToMemory(FALSE, scan_ok, order)
    /\ tasks' = [t \in TaskIds |-> NoTask]
    /\ running' = 0
    /\ UNCHANGED <<memories, embeddings, dynamodb_disabled, next_uuid, pc, cur,
                   response, created, deleted>>
    /\ UNCHANGED <<parser, ingest, keys>>

LoopNext ==
    \/ \E t \in TaskIds, u \in Users, e \in UnitEmbeddings :
           Accept(t, "create", 0, u, e)
    \/ \E t \in TaskIds, id \in MemoryIds : Accept(t, "delete", id, None, <<>>)
    \/ \E t \in TaskIds, u \in Users : Accept(t, "search", 0, u, LoopQuery)
    \/ \E t \in TaskIds, ok \in BOOLEAN : TaskCreate(t, ok)
    \/ \E t \in TaskIds, ok \in BOOLEAN : TaskCreatePutVector(t, ok)
    \/ \E t \in TaskIds : TaskCreateInsert(t)
    \/ \E t \in TaskIds, ok \in BOOLEAN : TaskDelete(t, ok)
    \/ \E t \in TaskIds, ok \in BOOLEAN : TaskDeleteVector(t, ok)
    \/ \E t \in TaskIds : TaskDeleteEvict(t)
    \/ \E t \in TaskIds : TaskScanBegin(t)
    \/ \E t \in TaskIds : TaskScanNext(t)
    \/ \E t \in TaskIds : TaskScanEnd(t)
    \/ \E t \in TaskIds : Reply(t)
    \/ \E ok \in BOOLEAN, order \in ScanOrders(embeddings) :
           LoopRestart(ok, order)

LoopSpec == Init /\ [][LoopNext]_vars

\* ------------------------------------------------------------- ingestion
\* ParserService.parse_file on a PDF: _parse_pdf hands text to the chunker
\* and parse_file makes one create_memory call per chunk.  A chunk stands
\* for its position in text_chunks (1..n); 0 stands for the whole text.
\* upload.drawn and upload.failed are history: the ids the calls of this
\* upload drew, and the chunk positions whose embedding or create raised.
Documents ==
    {[filename |-> "a.pdf", source |-> "s3://bucket/a.pdf"],
     [filename |-> "b.pdf", source |-> "s3://bucket/b.pdf"]}

\* how one create_memory call ends: it returns, or a put_item raises
CreateOutcomes == {"returned", "raised_metadata", "raised_vector"}

\* embedding_service.generate_embedding(text=..., input_type="passage")
GenerateEmbedding(content) == <<1, 0>>

\* {**a, **b} and {k: v, ..., **b}: the keys of b win
Merge(a, b) == b @@ a

\* parsed_content['metadata'] of _parse_pdf
PdfMetadata(n) ==
    IF n > 1
    THEN [parser |-> "PyPDF2", total_chunks |-> n, chunk_index |-> 0,
          is_partial |-> TRUE]
    ELSE [parser |-> "PyPDF2"]

\* parsed_content['text'] of _parse_pdf
PdfText(n) == IF n > 1 THEN 1 ELSE 0

\* metadata of the first create_memory call (lines 143-150)
FirstMetadata(filename, source, n) ==
    Merge([original_filename |-> filename, s3_url |-> source], PdfMetadata(n))

\* metadata of the create_memory call of additional chunk i (lines 184-194)
ChunkMetadata(filename, source, i, n) ==
    Merge([original_filename |-> filename, s3_url |-> source,
           chunk_index |-> i + 1, total_chunks |-> n, is_partial |-> TRUE],
          PdfMetadata(n))

\* memory_data of create_memory, with the fields ingestion fills in
DocumentData(memory_id, user_id, content, metadata, source) ==
    [id |-> memory_id, user_id |-> user_id, content |-> content,
     metadata |-> metadata, source |-> source]

\* one create_memory call as the tables and the dict see it
CreateRecord(outcome, memory_id, user_id, content, metadata, source) ==
    /\ next_uuid' = next_uuid + 1
    /\ memories' = IF outcome = "raised_metadata"
                   THEN memories
                   ELSE TablePut(memories,
                            DocumentData(memory_id, user_id, content, metadata,
                                         source))
    /\ embeddings' = IF outcome = "returned"
                     THEN TablePut(embeddings,
                              VectorData(memory_id, user_id,
                                         GenerateEmbedding(content)))
                     ELSE embeddings
    /\ vector_store' = IF outcome = "returned"
                       THEN DictSet(vector_store,
                                StoreEntry(memory_id, user_id,
                                           GenerateEmbedding(content)))
                       ELSE vector_store

\* parse_file up to the first create_memory call: the parser has made n
\* chunks of the text, and the embedding of the first text is generated
ParseFile(user_id, doc, n, embed_ok) ==
    /\ upload.at \in {"none", "returned"}
    /\ upload.count < MaxUploads
    /\ upload' = [NoUpload EXCEPT
                     !.at = IF embed_ok THEN "create_first" ELSE "returned",
                     !.result = IF embed_ok THEN "none" ELSE "500",
                     !.user_id = user_id,
                     !.filename = doc.filename,
                     !.source = doc.source,
                     !.total = n,
                     !.failed = IF embed_ok THEN {} ELSE {1},
                     !.count = upload.count + 1]
    /\ UNCHANGED <<memories, embeddings, vector_store, dynamodb_disabled,
                   next_uuid, pc, cur, response, created, deleted, faults>>
    /\ UNCHANGED <<parser, loop, keys>>

\* memory_id = database_service.create_memory(...) for the first text
CreateFirst(outcome) ==
    /\ upload.at = "create_first"
    /\ CreateRecord(outcome, next_uuid, upload.user_id, PdfText(upload.total),
                    FirstMetadata(upload.filename, upload.source, upload.total),
                    upload.source)
    /\ upload' = IF outcome = "returned"
                 THEN [upload EXCEPT
                          !.at = IF upload.total > 1 THEN "additional"
                                 ELSE "return",
                          !.k = 1,
                          !.memory_id = next_uuid,
                          !.drawn = {next_uuid}]
                 ELSE [upload EXCEPT
                          !.at = "returned",
                          !.result = "500",
                          !.drawn = {next_uuid},
                          !.failed = {1}]
    /\ UNCHANGED <<dynamodb_disabled, pc, cur, response, created, deleted,
                   faults>>
    /\ UNCHANGED <<parser, loop, keys>>

\* one turn of `for i, chunk in enumerate(parsed_content[
\* 'additional_chunks'])`: embedding and create_memory inside a try whose
\* except branch prints and continues
CreateAdditional(embed_ok, outcome) ==
    /\ upload.at = "additional"
    /\ LET i == upload.k - 1
           chunk == upload.k + 1
       IN  /\ IF embed_ok
              THEN CreateRecord(outcome, next_uuid, upload.user_id, chunk,
                                ChunkMetadata(upload.filename, upload.source, i,
                                              upload.total),
                                upload.source)
              ELSE /\ outcome = "returned"
                   /\ UNCHANGED <<memories, embeddings, vector_store, next_uuid>>
           /\ upload' = [upload EXCEPT
                  !.at = IF upload.k + 1 = upload.total THEN "return"
                         ELSE "additional",
                  !.k = upload.k + 1,
                  !.additional_memories =
                      IF embed_ok /\ outcome = "returned"
                      THEN Append(@, [memory_id |-> next_uuid,
                                      chunk_index |-> i + 1])
                      ELSE @,
                  !.drawn = IF embed_ok THEN @ \cup {next_uuid} ELSE @,
                  !.failed = IF embed_ok /\ outcome = "returned"
                             THEN @ ELSE @ \cup {chunk}]
    /\ UNCHANGED <<dynamodb_disabled, pc, cur, response, created, deleted,
                   faults>>
    /\ UNCHANGED <<parser, loop, keys>>

\* return {'success': True, 'memory_id': memory_id, ...}
ReturnSuccess ==
    /\ upload.at = "return"
    /\ upload' = [upload EXCEPT !.at = "returned", !.result = "success"]
    /\ UNCHANGED <<memories, embeddings, vector_store, dynamodb_disabled,
                   next_uuid, pc, cur, response, created, deleted, faults>>
    /\ UNCHANGED <<parser, loop, keys>>

IngestNext ==
    \/ \E u \in Users, doc \in Documents, n \in 0..MaxChunks,
          embed_ok \in BOOLEAN :
           ParseFile(u, doc, n, embed_ok)
    \/ \E outcome \in CreateOutcomes : CreateFirst(outcome)
    \/ \E embed_ok \in BOOLEAN, outcome \in CreateOutcomes :
           CreateAdditional(embed_ok, outcome)
    \/ ReturnSuccess

IngestSpec == Init /\ [][IngestNext]_vars

\* -------------------------------------------------------------- api keys
\* services/api_key_service.py.  The key handed out for the item with id i
\* is the token i; 0 is a token no create_api_key call has generated.  Time
\* is counted in hours.
KeyIds == 1..MaxKeys
Tokens == 0..MaxKeys

\* expires_at of create_api_key: none, or a datetime without or with tzinfo
Expiries ==
    {[set |-> FALSE, at |-> 0, aware |-> FALSE],
     [set |-> TRUE, at |-> 1, aware |-> FALSE],
     [set |-> TRUE, at |-> 1, aware |-> TRUE]}

\* how the lookup of validate_api_key goes: the query on key_hash_index
\* answers, or raises ValidationException and the scan answers, or the
\* lookup raises
Lookups == {"query", "scan", "raise"}

\* hashlib.sha256(api_key.encode()).hexdigest()
Sha256(api_key) == [sha256 |-> api_key]

\* the item create_api_key puts
KeyItem(api_key_id, user_id, api_key, expires_at) ==
    [id |-> api_key_id, user_id |-> user_id, key_hash |-> Sha256(api_key),
     expires_at |-> expires_at, last_used |-> 0 - 1, is_active |-> TRUE]

KeyReply(op, id, user_id, key, lookup, status, result) ==
    [op |-> op, id |-> id, user_id |-> user_id, key |-> key,
     lookup |-> lookup, status |-> status, result |-> result]

\* create_api_key; the route answers 500 when put_item raises
CreateApiKey(user_id, expires_at, put_ok) ==
    /\ Cardinality(DOMAIN api_keys) < MaxKeys
    /\ LET api_key_id == Cardinality(DOMAIN api_keys) + 1 IN
        IF put_ok
        THEN /\ api_keys' = TablePut(api_keys,
                                KeyItem(api_key_id, user_id, api_key_id,
                                        expires_at))
             /\ key_reply' = KeyReply("create", api_key_id, user_id, api_key_id,
                                      "none", "200", NoUser)
        ELSE /\ key_reply' = KeyReply("create", 0, user_id, 0, "none", "500",
                                      NoUser)
             /\ UNCHANGED api_keys
    /\ UNCHANGED <<now, revoked>>
    /\ UNCHANGED <<memories, embeddings, vector_store, dynamodb_disabled,
                   next_uuid, pc, cur, response, created, deleted, faults>>
    /\ UNCHANGED <<parser, loop, ingest>>

\* what revoke_api_key does: 404, 403, 500 on a ClientError, or True
RevokeStatus(user_id, api_key_id, get_ok, update_ok) ==
    IF ~get_ok THEN "500"
    ELSE IF api_key_id \notin DOMAIN api_keys THEN "404"
    ELSE IF api_keys[api_key_id].user_id # user_id THEN "403"
    ELSE IF ~update_ok THEN "500"
    ELSE "True"

\* DELETE /api-keys/{api_key_id} -> revoke_api_key
RevokeApiKey(user_id, api_key_id, get_ok, update_ok) ==
    /\ LET outcome == RevokeStatus(user_id, api_key_id, get_ok, update_ok) IN
        /\ key_reply' = KeyReply("revoke", api_key_id, user_id, 0, "none",
                                 outcome, NoUser)
        /\ IF outcome = "True"
           THEN /\ api_keys' = [api_keys EXCEPT ![api_key_id].is_active = FALSE]
                /\ revoked' = revoked \cup {api_key_id}
           ELSE UNCHANGED <<api_keys, revoked>>
    /\ UNCHANGED now
    /\ UNCHANGED <<memories, embeddings, vector_store, dynamodb_disabled,
                   next_uuid, pc, cur, response, created, deleted, faults>>
    /\ UNCHANGED <<parser, loop, ingest>>

\* items of the lookup: the query on the index hands out every item with
\* the hash, the scan those of its first page
RECURSIVE WithHash(_, _)
WithHash(items, key_hash) ==
    IF items = <<>> THEN <<>>
    ELSE IF Head(items).key_hash = key_hash
         THEN <<Head(items)>> \o WithHash(Tail(items), key_hash)
         ELSE WithHash(Tail(items), key_hash)

LookupItems(lookup, key_hash, order) ==
    IF lookup = "query"
    THEN WithHash([i \in 1..Len(order) |-> api_keys[order[i]]], key_hash)
    ELSE WithHash(ScanItems(api_keys, order), key_hash)

\* every item taken for an active one
AlwaysActive(item) == TRUE

\* item.get('is_active', True)
IsActive(item) == item.is_active

\* datetime.utcnow() > expires_at; comparing with an aware datetime raises
Expired(item, utcnow) ==
    item.expires_at.set /\ ~item.expires_at.aware /\ utcnow > item.expires_at.at

\* validate_api_key: the user of the key, or None
ValidateApiKeyOn(api_key, lookup, order, update_ok) ==
    IF lookup = "raise"
    THEN NoUser
    ELSE LET items == LookupItems(lookup, Sha256(api_key), order) IN
         IF items = <<>> THEN NoUser
         ELSE LET item == items[1] IN
              IF ~IsActive(item) THEN NoUser
              ELSE IF item.expires_at.set /\ item.expires_at.aware THEN NoUser
              ELSE IF Expired(item, now) THEN NoUser
              ELSE IF ~update_ok THEN NoUser
              ELSE [user_id |-> item.user_id, api_key_id |-> item.id]

\* get_user_from_api_key -> validate_api_key: 401 without a user; a key
\* that passes has its last_used set
ValidateApiKey(api_key, lookup, order, update_ok) ==
    /\ LET info == ValidateApiKeyOn(api_key, lookup, order, update_ok) IN
        /\ key_reply' = KeyReply("validate", info.api_key_id, info.user_id,
                                 api_key, lookup,
                                 IF info = NoUser THEN "401" ELSE "200", info)
        /\ api_keys' = IF info = NoUser
                       THEN api_keys
                       ELSE [api_keys EXCEPT ![info.api_key_id].last_used = now]
    /\ UNCHANGED <<now, revoked>>
    /\ UNCHANGED <<memories, embeddings, vector_store, dynamodb_disabled,
                   next_uuid, pc, cur, response, created, deleted, faults>>
    /\ UNCHANGED <<parser, loop, ingest>>

\* an hour passes
Tick ==
    /\ now < MaxTime
    /\ now' = now + 1
    /\ UNCHANGED <<api_keys, key_reply, revoked>>
    /\ UNCHANGED <<memories, embeddings, vector_store, dynamodb_disabled,
                   next_uuid, pc, cur, response, created, deleted, faults>>
    /\ UNCHANGED <<parser, loop, ingest>>

KeyNext ==
    \/ \E u \in Users, e \in Expiries, ok \in BOOLEAN : CreateApiKey(u, e, ok)
    \/ \E u \in Users, id \in KeyIds, get_ok \in BOOLEAN, update_ok \in BOOLEAN :
           RevokeApiKey(u, id, get_ok, update_ok)
    \/ \E k \in Tokens, l \in Lookups, order \in ScanOrders(api_keys),
          ok \in BOOLEAN :
           ValidateApiKey(k, l, order, ok)
    \/ Tick

KeySpec == Init /\ [][KeyNext]_vars

\* ------------------------------------------------------------ the chunker
\* services/parser_service.py.  A text is a sequence of characters: a latin
\* letter, a CJK character, a space, the sentence mark (the ideographic full
\* stop U+3002) and the blank line "\n\n" (newlines come in pairs).
Letter == "a"
Cjk == "zh"
Space == " "
SentenceMark == "."
BlankLine == "NN"

Characters == {Letter, Cjk, Space, SentenceMark, BlankLine}

Texts == UNION {[1..n -> Characters] : n \in 0..MaxTextLen}
Budgets == 1..MaxBudget

\* str.isspace
IsSpace(c) == c \in {Space, BlankLine}

\* len(text.split()): the maximal runs of characters that are not whitespace
Words(t) ==
    Cardinality({i \in 1..Len(t) :
                    ~IsSpace(t[i]) /\ (i = 1 \/ IsSpace(t[i - 1]))})

\* len([c for c in text if '\u4e00' <= c <= '\u9fff'])
ChineseChars(t) == Cardinality({i \in 1..Len(t) : t[i] = Cjk})

\* int(chinese_chars * 1.2 + english_words * 1.5)
EstimateTokens(t) == (12 * ChineseChars(t) + 15 * Words(t)) \div 10

\* str.strip
RECURSIVE Strip(_)
Strip(t) ==
    IF t = <<>> THEN <<>>
    ELSE IF IsSpace(Head(t)) THEN Strip(Tail(t))
    ELSE IF IsSpace(t[Len(t)]) THEN Strip(SubSeq(t, 1, Len(t) - 1))
    ELSE t

\* str.split(sep)
RECURSIVE Split(_, _)
Split(t, sep) ==
    IF \A i \in 1..Len(t) : t[i] # sep
    THEN <<t>>
    ELSE LET at == CHOOSE i \in 1..Len(t) :
                       t[i] = sep /\ \A j \in 1..(i - 1) : t[j] # sep
         IN  <<SubSeq(t, 1, at - 1)>> \o Split(SubSeq(t, at + 1, Len(t)), sep)

\* if current_chunk: chunks.append(current_chunk.strip())
Flush(done, current_chunk) ==
    IF current_chunk # <<>> THEN Append(done, Strip(current_chunk)) ELSE done

\* the loop of _split_long_paragraph and the flush after it
RECURSIVE SentenceLoop(_, _, _, _)
SentenceLoop(sentences, done, current_chunk, budget) ==
    IF sentences = <<>>
    THEN Flush(done, current_chunk)
    ELSE LET sentence == Head(sentences) IN
         IF Strip(sentence) = <<>>
         THEN SentenceLoop(Tail(sentences), done, current_chunk, budget)
         ELSE IF EstimateTokens(current_chunk \o sentence) <= budget
              THEN SentenceLoop(Tail(sentences), done,
                                current_chunk \o sentence \o <<SentenceMark>>,
                                budget)
              ELSE SentenceLoop(Tail(sentences), Flush(done, current_chunk),
                                sentence \o <<SentenceMark>>, budget)

\* _split_long_paragraph
SplitLongParagraph(paragraph, budget) ==
    SentenceLoop(Split(paragraph, SentenceMark), <<>>, <<>>, budget)

\* the loop of _split_text_into_chunks and the flush after it
RECURSIVE ParagraphLoop(_, _, _, _)
ParagraphLoop(paragraphs, done, current_chunk, budget) ==
    IF paragraphs = <<>>
    THEN Flush(done, current_chunk)
    ELSE LET paragraph == Head(paragraphs) IN
         IF EstimateTokens(paragraph) > budget
         THEN ParagraphLoop(Tail(paragraphs),
                            Flush(done, current_chunk)
                                \o SplitLongParagraph(paragraph, budget),
                            <<>>, budget)
         ELSE IF EstimateTokens(current_chunk \o paragraph) <= budget
              THEN ParagraphLoop(Tail(paragraphs), done,
                                 current_chunk \o paragraph \o <<BlankLine>>,
                                 budget)
              ELSE ParagraphLoop(Tail(paragraphs), Flush(done, current_chunk),
                                 paragraph \o <<BlankLine>>, budget)

\* the chunker without its first test: every text goes through the loop
SplitAlways(t, budget) ==
    ParagraphLoop(Split(t, BlankLine), <<>>, <<>>, budget)

\* _split_text_into_chunks
SplitTextIntoChunks(t, budget) ==
    IF EstimateTokens(t) <= budget
    THEN <<t>>
    ELSE ParagraphLoop(Split(t, BlankLine), <<>>, <<>>, budget)

\* parse_file hands a text to the chunker
SplitTextIntoChunksCall ==
    /\ pc = "idle"
    /\ pc' = "chunked"
    /\ chunks' = SplitTextIntoChunks(text, max_tokens)
    /\ UNCHANGED <<memories, embeddings, vector_store, dynamodb_disabled,
                   next_uuid, cur, response, created, deleted, faults, text,
                   max_tokens>>
    /\ UNCHANGED <<loop, ingest, keys>>

\* the chunker on every text and budget within the bounds
ParserInit ==
    /\ Constructed
    /\ text \in Texts
    /\ max_tokens \in Budgets
    /\ chunks = <<>>
    /\ AtRest

ParserNext == SplitTextIntoChunksCall

ParserSpec == ParserInit /\ [][ParserNext]_vars

\* ------------------------------------------------------------------ claims
Indexed(id) == id \in Keys(vector_store)

\* the record is returned by some search of some tenant
Searchable(id) ==
    \E q \in Queries, u \in Users, l \in Limits, t \in Thresholds, f \in Outages :
        id \in ResultIds(SemanticSearch(q, u, l, t, f))

\* C1: whatever was created, deleted or recovered so far, a search issued for
\* a tenant returns only records that were created under that tenant, for
\* every query vector, limit and threshold.
C1_TenantIsolation ==
    \A q \in Queries, u \in Users, l \in Limits, t \in Thresholds, f \in Outages :
        \A id \in ResultIds(SemanticSearch(q, u, l, t, f)) :
            id \in DOMAIN created /\ created[id].user_id = u

\* both tenants hold an indexed record with the same embedding, and a search
\* of one of them with that very vector returns a record
C1_Witness ==
    \E i, j \in 1..Len(vector_store) :
        /\ vector_store[i].user_id = "u1"
        /\ vector_store[j].user_id = "u2"
        /\ vector_store[i].embedding = vector_store[j].embedding
        /\ vector_store[i].memory_id \in DOMAIN memories
        /\ vector_store[j].memory_id \in DOMAIN memories
        /\ ResultIds(SemanticSearch(vector_store[i].embedding, "u2",
                                    MaxMemories, 100, {}))
               = {vector_store[j].memory_id}

\* C2: a create_memory call in which one of the two put_item calls raised
\* has raised to its caller, and its record is in neither the vector table
\* nor the dict and is returned by no search, before and after any restart.
C2_FailedCreateInvisible ==
    \A id \in DOMAIN created :
        created[id].outcome = "raised" =>
            /\ id \notin DOMAIN embeddings
            /\ ~Indexed(id)
            /\ ~Searchable(id)
            /\ response.op = "create" /\ response.id = id
                   => response.status = "raised"

\* the vector put of a create raised after its metadata put went through, and
\* the process has been constructed again since
C2_Witness ==
    \E id \in DOMAIN created :
        /\ created[id].outcome = "raised"
        /\ id \in DOMAIN memories
        /\ response.op = "startup"
        /\ response.status = "loaded"
        /\ vector_store # <<>>

\* C3: after a create_memory call that raised, no part of its record can be
\* read: the memories table holds no item under its id, so get_memory_by_id
\* returns nothing for it.
C3_NoPartialRecord ==
    \A id \in DOMAIN created :
        created[id].outcome = "raised" =>
            id \notin DOMAIN memories /\ GetMemoryById(id, {}) = NoItem

\* C4: a record (with an embedding of dimension D) whose create_memory call
\* returned in the running process and that no delete has touched is
\* returned by every search of its tenant whose query scores it at or above
\* the threshold, with a limit that holds every record.
C4_ReadYourWrites ==
    \A id \in DOMAIN created :
        ( /\ created[id].live
          /\ Len(created[id].embedding) = EMBEDDING_DIMENSION
          /\ id \in DOMAIN memories
          /\ id \in DOMAIN embeddings
          /\ id \notin deleted )
        => \A q \in Queries, t \in Thresholds :
               ( /\ ShapesAligned(q, created[id].embedding)
                 /\ AtLeast(Similarity(q, created[id].embedding), t) )
               => id \in ResultIds(SemanticSearch(q, created[id].user_id,
                                                  MaxMemories, t, {}))

\* C5: a delete_memory call for the id of a created record for which an
\* earlier call has already returned True does not return True again.
C5_DeleteIdempotent ==
    [][ ( /\ pc = "delete_index"
          /\ response'.op = "delete"
          /\ created[cur.id].outcome = "returned"
          /\ cur.id \in deleted )
        => response'.status # "True" ]_vars

\* the request a step belongs to
Served == IF pc = "idle" THEN cur' ELSE cur

\* C6: no step of a delete of a created record requested by a tenant other
\* than the one the record was created under changes the memories table, the
\* vector table or the dict, and such a delete does not return True.
C6_DeleteChecksOwner ==
    [][ ( /\ Served.op = "delete"
          /\ response'.op # "startup"
          /\ created[Served.id].outcome = "returned"
          /\ created[Served.id].user_id # Served.user_id )
        => /\ memories' = memories
           /\ embeddings' = embeddings
           /\ vector_store' = vector_store
           /\ ~(response'.op = "delete" /\ response'.status = "True") ]_vars

\* C7: when a delete_memory call has ended and the metadata of a created
\* record is gone, the record's dict entry is gone too, or the call reported
\* an inconsistency.
C7_EvictionGuaranteed ==
    ( /\ pc = "idle"
      /\ response.op = "delete"
      /\ response.id \in DOMAIN created
      /\ created[response.id].outcome = "returned"
      /\ response.id \notin DOMAIN memories )
    => ~Indexed(response.id) \/ response.status = "Inconsistent"

\* every item of the vector table has an embedding of dimension D
AllWellFormed ==
    \A k \in DOMAIN embeddings :
        Len(embeddings[k].embedding) = EMBEDDING_DIMENSION

\* C8: right after a startup that loaded the vectors (all of them of
\* dimension D), every record whose
\* create_memory call had written both items when the process ended, and whose
\* items are still there, is in the dict and is returned by a search of its
\* tenant with its own embedding.
C8_RecoveredAfterCrash ==
    (response.op = "startup" /\ response.status = "loaded" /\ AllWellFormed)
    => \A id \in DOMAIN created :
           ( /\ created[id].outcome = "interrupted"
             /\ id \in DOMAIN memories
             /\ id \in DOMAIN embeddings )
           => /\ Indexed(id)
              /\ id \in ResultIds(SemanticSearch(created[id].embedding,
                                                 created[id].user_id,
                                                 MaxMemories, Scale, {}))

\* C9: in a state reached by creates (with embeddings of dimension D) and
\* deletes none of whose store calls raised, a dict rebuilt from the vector
\* table answers every search exactly as the dict of the running process
\* does.
C9_RecoveryEquivalence ==
    (faults = 0 /\ pc = "idle" /\ ~dynamodb_disabled /\ AllWellFormed)
    => \A order \in ScanOrders(embeddings), q \in Queries, u \in Users,
          l \in Limits, t \in Thresholds :
           SemanticSearchOn(LoadVectorsToMemory(FALSE, TRUE, order),
                            q, u, l, t, {})
               = SemanticSearch(q, u, l, t, {})

\* an item of the vector table with an embedding of dimension D and a tenant
WellFormed(user_id, embedding) ==
    user_id \in Users /\ Len(embedding) = EMBEDDING_DIMENSION

\* C10: right after a startup that loaded the vectors, no malformed entry is
\* in the dict, and every well-formed item the scan handed out is.
C10_MalformedSkipped ==
    (response.op = "startup" /\ response.status = "loaded")
    => /\ \A i \in 1..Len(vector_store) :
              WellFormed(vector_store[i].user_id, vector_store[i].embedding)
       /\ \A k \in 1..Len(response.results) :
              LET item == embeddings[response.results[k]] IN
              WellFormed(item.user_id, item.embedding) => Indexed(item.id)

\* the dict positions a search of the tenant is to consider: entries of the
\* tenant that score at or above the threshold and whose record the memories
\* table hands out
Candidates(query_embedding, user_id, threshold, failing) ==
    {i \in 1..Len(vector_store) :
        /\ vector_store[i].user_id = user_id
        /\ Similarity(query_embedding, vector_store[i].embedding) # NaN
        /\ Similarity(query_embedding, vector_store[i].embedding) >= threshold
        /\ OwnedBy(GetMemoryById(vector_store[i].memory_id, failing), user_id)}

Smaller(a, b) == IF a < b THEN a ELSE b

\* C11: a search that completes returns the top `limit` candidates of the
\* tenant: only candidates, as many as the limit allows, in descending order
\* of similarity, and no candidate left out scores strictly higher than one
\* that is returned.
C11_TopLimit ==
    \A q \in Queries, u \in Users, l \in Limits, t \in Thresholds, f \in Outages :
        LET outcome == SemanticSearch(q, u, l, t, f)
            results == outcome.results
            candidates == Candidates(q, u, t, f)
        IN  outcome.status = "ok" =>
                /\ Len(results) = Smaller(l, Cardinality(candidates))
                /\ ResultIds(outcome)
                       \subseteq {vector_store[c].memory_id : c \in candidates}
                /\ \A i, j \in 1..Len(results) :
                       i < j => results[i].similarity_score
                                    >= results[j].similarity_score
                /\ \A c \in candidates :
                       vector_store[c].memory_id \notin ResultIds(outcome)
                       => \A k \in 1..Len(results) :
                              results[k].similarity_score
                                  >= Similarity(q, vector_store[c].embedding)

\* a tenant holds two candidates, the one inserted later scoring higher, and
\* a search with limit 1 has returned the later one alone
C11_Witness ==
    \E i, j \in 1..Len(vector_store) :
        /\ i < j
        /\ {i, j} \subseteq Candidates(<<3, 4>>, "u1", 60, {})
        /\ Similarity(<<3, 4>>, vector_store[i].embedding) = 60
        /\ Similarity(<<3, 4>>, vector_store[j].embedding) = 80
        /\ response.op = "search"
        /\ response.status = "ok"
        /\ response.results
               = <<[memory |-> memories[vector_store[j].memory_id],
                    similarity_score |-> 80]>>

\* the dicts that hold the entries of vector_store in any order: what another
\* order of the same create_memory calls, or a scan handing out the same items
\* in another order, builds
Reorderings ==
    {[i \in 1..Len(vector_store) |-> vector_store[p[i]]] :
        p \in Permutations(1..Len(vector_store))}

\* C12: the answer to a search depends only on the records held, not on the
\* order in which they entered the dict: every reordering of the dict gives
\* the same results in the same order, for every query, tenant, limit and
\* threshold.
C12_TieBreakDeterministic ==
    \A store \in Reorderings :
        \A q \in Queries, u \in Users, l \in Limits, t \in Thresholds :
            SemanticSearchOn(store, q, u, l, t, {}) = SemanticSearch(q, u, l, t, {})

\* C13: in a search that completes, an entry of the tenant that scores
\* exactly the threshold (and whose record the memories table hands out) is
\* returned when the limit holds every record, and an entry that scores
\* strictly below the threshold is returned under no limit.
C13_ThresholdInclusive ==
    \A q \in Queries, u \in Users, t \in Thresholds, f \in Outages :
        \A i \in 1..Len(vector_store) :
            LET entry == vector_store[i]
                score == Similarity(q, entry.embedding)
            IN  (entry.user_id = u /\ ShapesAligned(q, entry.embedding)) =>
                  /\ ( /\ SemanticSearch(q, u, MaxMemories, t, f).status = "ok"
                       /\ score = t
                       /\ OwnedBy(GetMemoryById(entry.memory_id, f), u) )
                     => entry.memory_id
                            \in ResultIds(SemanticSearch(q, u, MaxMemories, t, f))
                  /\ score < t
                     => \A l \in Limits :
                            entry.memory_id
                                \notin ResultIds(SemanticSearch(q, u, l, t, f))

\* a search has returned a record that scores exactly the threshold 0.6, and
\* the same tenant holds a record that scores 0.8
C13_Witness ==
    /\ response.op = "search"
    /\ response.status = "ok"
    /\ \E k \in 1..Len(response.results) :
           /\ response.results[k].similarity_score = 60
           /\ \E i \in 1..Len(vector_store) :
                  /\ vector_store[i].user_id = response.results[k].memory.user_id
                  /\ Similarity(<<3, 4>>, vector_store[i].embedding) = 80

\* a zero norm takes part in a search: the query's, or that of an entry of
\* the tenant
ZeroNormInvolved(query_embedding, user_id) ==
    \/ Norm(query_embedding) = 0
    \/ \E i \in 1..Len(vector_store) :
           /\ vector_store[i].user_id = user_id
           /\ Norm(vector_store[i].embedding) = 0

\* C14: a search of a tenant that holds an indexed record, with a query of the
\* dimension of the tenant's entries, is rejected with InvalidEmbedding when
\* a zero norm takes part in it.
C14_ZeroNormRejected ==
    \A q \in Queries, u \in Users, l \in Limits, t \in Thresholds :
        ( /\ ZeroNormInvolved(q, u)
          /\ \E i \in 1..Len(vector_store) : vector_store[i].user_id = u
          /\ \A i \in 1..Len(vector_store) :
                 vector_store[i].user_id = u
                 => ShapesAligned(q, vector_store[i].embedding) )
        => SemanticSearch(q, u, l, t, {}).status = "InvalidEmbedding"

\* C15: a create_memory call with an embedding whose dimension is not D
\* writes nothing, at any point of the call and after it: neither table holds
\* an item under its id, the dict has no entry for it, and the call does not
\* return an id.
C15_DimensionValidated ==
    \A id \in DOMAIN created :
        Len(created[id].embedding) # EMBEDDING_DIMENSION =>
            /\ id \notin DOMAIN memories
            /\ id \notin DOMAIN embeddings
            /\ ~Indexed(id)
            /\ created[id].outcome # "returned"

\* what get_related_memories and its route may hand out for a record and a
\* requesting tenant: at most `limit` results, none the record itself, each a
\* record of the tenant scored against the record's own embedding
RelatedWithin(related, memory_id, user_id, limit) ==
    /\ Len(related) <= limit
    /\ \A k \in 1..Len(related) :
           LET found == related[k].memory.id IN
           /\ found # memory_id
           /\ found \in DOMAIN created
           /\ created[found].user_id = user_id
           /\ memory_id \in DOMAIN created
           /\ related[k].similarity_score
                  = Similarity(created[memory_id].embedding,
                               created[found].embedding)
    /\ (memory_id \in DOMAIN created /\ created[memory_id].user_id # user_id)
           => related = <<>>

\* C16: for every record id, requesting tenant, limit and get_item outage,
\* get_related_memories and the related route return at most `limit` results,
\* never the queried record itself, only records of the requesting tenant,
\* scored against the queried record's own embedding, and nothing at all for
\* a record created under another tenant.
C16_RelatedScoped ==
    \A id \in MemoryIds, u \in Users, l \in Limits, f \in Outages :
        /\ RelatedWithin(GetRelatedMemories(id, u, l, f), id, u, l)
        /\ RelatedWithin(RelatedMemoriesRoute(id, u, l, f).results, id, u, l)

\* the related route has returned the other record of a tenant that holds
\* two records with the same embedding, the queried one first in the dict
C16_Witness ==
    /\ response.op = "related"
    /\ response.status = "200"
    /\ Len(response.results) = 1
    /\ Len(vector_store) = 2
    /\ vector_store[1].memory_id = response.id
    /\ vector_store[2].memory_id = response.results[1].memory.id
    /\ vector_store[1].user_id = vector_store[2].user_id

\* C17: between requests, a tenant that reads by id a record it does not own
\* (one whose create_memory call returned) gets what it gets for an id no
\* record has: 404 from the memo route, from the related route and from the
\* memory route alike.
C17_NotFoundIndistinguishable ==
    \A id \in MemoryIds, u \in Users :
        ( /\ pc = "idle"
          /\ id \in DOMAIN created => created[id].outcome = "returned"
          /\ ~OwnedBy(TableGet(memories, id), u) )
        =>  /\ GetMemo(id, u, {}) = "404"
            /\ RelatedMemoriesRoute(id, u, 1, {}).status = "404"
            /\ GetMemoryByIdRoute(id, {}) = "404"

\* the entries of the tenant have the dimension of the query
AlignedFor(query_embedding, user_id) ==
    \A i \in 1..Len(vector_store) :
        vector_store[i].user_id = user_id
        => ShapesAligned(query_embedding, vector_store[i].embedding)

\* the dict positions for whose records the search calls get_item
Hydrated(query_embedding, user_id, threshold) ==
    {i \in 1..Len(vector_store) :
        /\ vector_store[i].user_id = user_id
        /\ Similarity(query_embedding, vector_store[i].embedding) # NaN
        /\ Similarity(query_embedding, vector_store[i].embedding) >= threshold}

\* C18: a search over entries of the query's dimension completes with an
\* empty result when no entry of the tenant qualifies, and does not complete
\* normally when a get_item call it makes for a qualifying entry raises.
C18_FailureNotEmptyResult ==
    \A q \in Queries, u \in Users, l \in Limits, t \in Thresholds, f \in Outages :
        AlignedFor(q, u) =>
            /\ Candidates(q, u, t, f) = {}
               => \/ SemanticSearch(q, u, l, t, f)
                         = [status |-> "ok", results |-> <<>>]
                  \/ \E i \in Hydrated(q, u, t) : vector_store[i].memory_id \in f
            /\ (\E i \in Hydrated(q, u, t) : vector_store[i].memory_id \in f)
               => SemanticSearch(q, u, l, t, f).status # "ok"

\* C19: the chunker returns exactly one chunk if and only if the estimate of
\* the text is within the budget.
C19_OneChunkIffWithinBudget ==
    pc = "chunked" =>
        (Len(chunks) = 1 <=> EstimateTokens(text) <= max_tokens)

\* C19 as amended: a text whose estimate is within the budget comes back as
\* exactly one chunk, the text itself.
C19_WithinBudgetOneChunk ==
    (pc = "chunked" /\ EstimateTokens(text) <= max_tokens) => chunks = <<text>>

\* a text of two paragraphs, with whitespace at its end, came back whole as
\* one chunk at the very budget its estimate reaches
C19_Witness ==
    /\ pc = "chunked"
    /\ EstimateTokens(text) = max_tokens
    /\ Len(Split(text, BlankLine)) = 2
    /\ text # Strip(text)
    /\ chunks = <<text>>

\* the characters of a text that are not whitespace, in order
NonSpace(t) == SelectSeq(t, LAMBDA c : ~IsSpace(c))

\* the chunks one after the other
RECURSIVE Concatenation(_)
Concatenation(list) ==
    IF list = <<>> THEN <<>> ELSE Head(list) \o Concatenation(Tail(list))

\* C20: the chunks, put one after the other in the order returned, hold the
\* characters of the text that are not whitespace, each once and in the
\* order of the text, and no other.
C20_ConcatenationReproduces ==
    pc = "chunked" => NonSpace(Concatenation(chunks)) = NonSpace(text)

\* C21: while dynamodb_disabled, a create_memory call that has handed its
\* outcome to the caller has raised: it never returns normally with nothing
\* persisted and nothing indexed.
C21_DisabledCreateRejected ==
    (dynamodb_disabled /\ response.op = "create") => response.status = "raised"

\* both durable items of a record are in their tables
DurablyWritten(id) == id \in DOMAIN memories /\ id \in DOMAIN embeddings

\* C23: create_memory puts the metadata item, then the vector item, then the
\* dict entry: while a create is under way its id is in the dict only if both
\* items are in their tables, and a step of a create (one that raises
\* included) adds an id to the dict only when both items were written before
\* the step.
C23_StepsInOrder ==
    [][ /\ pc \in {"create_put_vector", "create_index"}
            => (Indexed(cur.id) => DurablyWritten(cur.id))
        /\ (Served.op = "create" /\ response'.op # "startup")
            => \A id \in Keys(vector_store') \ Keys(vector_store) :
                   DurablyWritten(id) ]_vars

\* one create has gone through its three steps and its id is in the dict;
\* the vector put of a second one raised, which left it out of the dict
C23_Witness ==
    \E a, b \in DOMAIN created :
        /\ created[a].outcome = "returned"
        /\ Indexed(a) /\ DurablyWritten(a)
        /\ created[b].outcome = "raised"
        /\ b \in DOMAIN memories
        /\ ~Indexed(b)
        /\ response.op = "create" /\ response.id = b

\* C24: once a create_memory or delete_memory call has ended, whether its
\* store calls went through or raised, the memories table and the vector
\* table hold the same ids, each under the same user_id in both.
C24_StoresHoldSameIds ==
    (pc = "idle" /\ response.op \in {"create", "delete"})
    => /\ DOMAIN memories = DOMAIN embeddings
       /\ \A id \in DOMAIN memories :
              memories[id].user_id = embeddings[id].user_id

\* the dict entry is the one a load of the vector table makes of the item
\* stored under the same id
Reproduced(entry) ==
    /\ entry.memory_id \in DOMAIN embeddings
    /\ entry = LoadItems(<<>>, <<embeddings[entry.memory_id]>>)[1]

\* C26: whenever a create_memory call, a delete_memory call or a startup has
\* ended, every id of the dict has an item in the vector table under the
\* same user_id, and the dict entry is the one loading that item gives.
C26_IndexBackedByVectorTable ==
    pc = "idle" =>
        \A i \in 1..Len(vector_store) :
            /\ vector_store[i].memory_id \in DOMAIN embeddings
            /\ embeddings[vector_store[i].memory_id].user_id
                   = vector_store[i].user_id
            /\ Reproduced(vector_store[i])

\* a delete whose vector delete raised after the metadata item was removed:
\* the dict still holds the id, and so does the vector table
C26_Witness ==
    /\ pc = "idle"
    /\ response.op = "delete" /\ response.status = "False"
    /\ Indexed(response.id)
    /\ response.id \notin DOMAIN memories
    /\ response.id \in DOMAIN embeddings

\* the dict positions of the tenant that score at or above the threshold and
\* whose id the memories table holds under the tenant's user_id
Backed(query_embedding, user_id, threshold) ==
    {i \in 1..Len(vector_store) :
        /\ vector_store[i].user_id = user_id
        /\ Similarity(query_embedding, vector_store[i].embedding) # NaN
        /\ Similarity(query_embedding, vector_store[i].embedding) >= threshold
        /\ vector_store[i].memory_id \in DOMAIN memories
        /\ memories[vector_store[i].memory_id].user_id = user_id}

\* C27: every result of a search that completes carries the item the memories
\* table holds under the result's id at the time of the search, stored under
\* the querying user_id; a dict entry whose item is gone is not returned and
\* takes no place within `limit`: with the table reachable the search returns
\* as many backed entries as the limit allows.
C27_HydrationGuard ==
    \A q \in Queries, u \in Users, l \in Limits, t \in Thresholds, f \in Outages :
        LET outcome == SemanticSearch(q, u, l, t, f)
            results == outcome.results
        IN  outcome.status = "ok" =>
                /\ \A k \in 1..Len(results) :
                       /\ results[k].memory.id \in DOMAIN memories
                       /\ results[k].memory = memories[results[k].memory.id]
                       /\ results[k].memory.user_id = u
                /\ f = {} => Len(results)
                                 = Smaller(l, Cardinality(Backed(q, u, t)))

\* the dict holds two entries of a tenant; the item of the first, which
\* scores higher, is gone from the memories table (its delete stopped at the
\* vector table), and a search has returned the second one alone
C27_Witness ==
    /\ Len(vector_store) = 2
    /\ vector_store[1].user_id = vector_store[2].user_id
    /\ vector_store[1].embedding = <<0, 1>>
    /\ vector_store[2].embedding = <<1, 0>>
    /\ vector_store[1].memory_id \notin DOMAIN memories
    /\ vector_store[2].memory_id \in DOMAIN memories
    /\ response.op = "search"
    /\ response.status = "ok"
    /\ response.results = <<[memory |-> memories[vector_store[2].memory_id],
                             similarity_score |-> 60]>>

\* C28: in a process constructed with dynamodb_disabled the dict is empty
\* before and after every call: create_memory returns no id, delete_memory
\* returns False, a search returns the empty list, and none of them changes
\* a table or the dict.
C28_DisabledStaysEmpty ==
    [][ (dynamodb_disabled /\ response'.op # "startup")
        => /\ vector_store = <<>> /\ vector_store' = <<>>
           /\ memories' = memories
           /\ embeddings' = embeddings
           /\ response'.op = "create" => response'.status = "none"
           /\ response'.op = "delete" => response'.status = "False"
           /\ response'.op = "search"
                  => response'.status = "ok" /\ response'.results = <<>> ]_vars

\* both tables hold a record written by an earlier process; in the process
\* constructed with the flag set a delete of that record has returned False
\* and the dict is empty
C28_Witness ==
    /\ dynamodb_disabled
    /\ response.op = "delete"
    /\ response.status = "False"
    /\ response.id \in DOMAIN memories
    /\ response.id \in DOMAIN embeddings
    /\ vector_store = <<>>

\* C25: service calls that write the dict never overlap one another nor a
\* scan: at most one call is under way at any time, no step changes the
\* dict while a scan is under way, no scan is broken off by a change of the
\* dict, and a dict key stands for one whole entry.
C25_IndexWritesExclusive ==
    [][ /\ Cardinality(InService) <= 1
        /\ \A t \in TaskIds :
               (tasks[t].at = "scan" /\ tasks'[t].op # "none")
               => vector_store' = vector_store
        /\ \A t \in TaskIds : tasks'[t].status # "RuntimeError"
        /\ \A i, j \in 1..Len(vector_store') :
               vector_store'[i].memory_id = vector_store'[j].memory_id => i = j
      ]_vars

\* a scan has handed out an entry and is not over, while the create of
\* another client waits for the loop
C25_Witness ==
    \E s, c \in TaskIds :
        /\ tasks[s].at = "scan"
        /\ tasks[s].seen = 1
        /\ tasks[s].size = 2
        /\ tasks[c].op = "create"
        /\ tasks[c].at = "accepted"
        /\ running = s

\* the records of the upload: the items of the memories table under the ids
\* its create_memory calls drew
RecordsOf(doc) == {memories[id] : id \in doc.drawn \cap DOMAIN memories}

\* C22: when parse_file has returned for a document of n >= 2 chunks whose
\* embeddings and create_memory calls all went through, the memories table
\* holds n records of it, one per chunk, the record of the k-th chunk with
\* chunk_index k (counted from 0, or counted from 1) and total_chunks n, all
\* with the source and the filename of the upload.
C22_ChunkProvenance ==
    ( /\ upload.at = "returned"
      /\ upload.result = "success"
      /\ upload.total >= 2
      /\ upload.failed = {} )
    => /\ Cardinality(RecordsOf(upload)) = upload.total
       /\ \E base \in {0, 1} :
              \A k \in 1..upload.total :
                  \E r \in RecordsOf(upload) :
                      /\ r.content = k
                      /\ r.source = upload.source
                      /\ r.metadata.original_filename = upload.filename
                      /\ r.metadata.total_chunks = upload.total
                      /\ r.metadata.chunk_index = k - 1 + base

\* C29: the record of the first text is in the memories table before that
\* of any further chunk; a further chunk whose embedding or create raises
\* removes no record and the loop goes on to the next chunk; once the first
\* create has returned parse_file ends in success with its id, every chunk
\* tried; and when parse_file ends in an error no record of the upload is in
\* the memories table.
C29_NotAllOrNothing ==
    [][ /\ (\E r \in RecordsOf(upload)' : r.content >= 2)
            => upload'.memory_id \in DOMAIN memories'
        /\ upload.at = "additional"
            => /\ \A id \in DOMAIN memories :
                      id \in DOMAIN memories' /\ memories'[id] = memories[id]
               /\ upload'.k = upload.k + 1
               /\ upload'.at \in {"additional", "return"}
        /\ (upload'.at = "returned" /\ upload'.memory_id # 0)
            => /\ upload'.result = "success"
               /\ upload'.memory_id \in upload'.drawn
               /\ upload'.total > 1 => upload'.k = upload'.total
        /\ (upload'.at = "returned" /\ upload'.result = "500")
            => RecordsOf(upload)' = {} ]_vars

\* the ids of the items stored under the hash of the token
Holding(api_key) ==
    {id \in DOMAIN api_keys : api_keys[id].key_hash = Sha256(api_key)}

\* the clock is past the expiry stored with the key
PastExpiry(id) ==
    api_keys[id].expires_at.set /\ now > api_keys[id].expires_at.at

\* C30: a key whose revoke_api_key call returned stays inactive, and every
\* later validate_api_key call for it returns None; validate_api_key also
\* returns None for a token no item holds, for a key past its expiry and
\* when the lookup raises; a revoke_api_key call by a user other than the
\* owner of the key does not return True and leaves the table as it is.
C30_RevokedStaysInvalid ==
    [][ /\ \A id \in revoked : ~api_keys'[id].is_active
        /\ (key_reply'.op = "validate" /\ now' = now)
            => LET held == Holding(key_reply'.key) IN
               ( \/ held \cap revoked # {}
                 \/ held = {}
                 \/ \E id \in held : PastExpiry(id)
                 \/ key_reply'.lookup = "raise" )
               => /\ key_reply'.result = NoUser
                  /\ key_reply'.status = "401"
                  /\ api_keys' = api_keys
        /\ ( /\ key_reply'.op = "revoke"
             /\ now' = now
             /\ key_reply'.id \in DOMAIN api_keys
             /\ api_keys[key_reply'.id].user_id # key_reply'.user_id )
            => /\ key_reply'.status # "True"
               /\ api_keys' = api_keys
               /\ revoked' = revoked ]_vars

\* a key that validated once (last_used is set) was revoked by its owner,
\* and a later validate_api_key call that found its item returned None
C30_Witness ==
    /\ key_reply.op = "validate"
    /\ key_reply.lookup = "query"
    /\ key_reply.result = NoUser
    /\ \E id \in Holding(key_reply.key) \cap revoked :
           /\ api_keys[id].last_used >= 0
           /\ ~api_keys[id].expires_at.set

====
